---- MODULE Spec2Model ----
(***************************************************************************)
(* Rock-Paper-Scissors Plus.                                                *)
(* Spec      : one GameLogic object, its GameState and play_round           *)
(*             (game_logic.py, models.py).                                  *)
(* SpecFinal : get_final_result on games with given scores.                 *)
(* SpecApi   : the session store and the start / play / end requests of     *)
(*             api.py, with the judge of judge.py.                          *)
(* SpecConc  : play requests in flight together, served by the event loop   *)
(*             that runs the coroutines of api.py.                          *)
(* SpecGames : a game played to its end, through the API or through the     *)
(*             loop of main.py, by a player who keeps submitting moves.     *)
(***************************************************************************)
EXTENDS FiniteSets, Integers, Sequences, TLC

\* ---------------------------------------------------------------- bounds
\* play_round itself is unbounded; the model stops after MaxRounds calls.
MaxRounds == 3

\* get_final_result is checked on every pair of scores up to MaxScore
MaxScore == 5

\* and on MaxFinalCalls successive calls
MaxFinalCalls == 2

\* the play requests in flight at the same time
MaxInflight == 2

\* ---------------------------------------------------------------- values
\* Python's None for Optional[str] user_move
None == "None"

\* GameLogic.VALID_MOVES
VALID_MOVES == {"rock", "paper", "scissors", "bomb"}

\* the list both random.choice calls of generate_bot_move draw from
StandardMoves == {"rock", "paper", "scissors"}

\* MoveInterpretation.classification
Classifications == {"VALID", "INVALID", "UNCLEAR"}

\* MoveInterpretation.interpreted_move: Optional[Literal[...]], default None
InterpretedMoves == VALID_MOVES \cup {None}

\* the marker of "play_round has not been called yet" in call and result
NoCall == "no_call"

\* the session identifiers the requests use
SessionIds == {"s1", "s2"}

\* the values of StartGameRequest.max_rounds the requests use (the field
\* allows 1 to 20): a game of one round and a game of two
MaxRoundsChoices == {1, 2}

\* the values of max_rounds the command-line game is built with (main()
\* passes 5; the constructor takes any int)
CliMaxRoundsChoices == {1, 2, 3}

VARIABLES
    state,          \* GameLogic.state : GameState
    call,           \* the arguments of the latest play_round call
    result,         \* the RoundResult the latest play_round call returned
    final_results,  \* the values the get_final_result calls returned, in order
    game_sessions,  \* api.game_sessions : dict session_id -> GameLogic
    intent_judge,   \* api.intent_judge : the IntentJudge singleton, or None
    response,       \* the latest HTTP request with the answer it got
    inflight,       \* the play requests received and not answered yet
    game            \* main.py's RockPaperScissorsPlusGame (its GameLogic is state)

engine_vars == <<state, call, result>>

api_vars == <<game_sessions, intent_judge, response, inflight>>

cli_vars == <<game>>

vars == <<state, call, result, final_results, game_sessions, intent_judge, response,
          inflight, game>>

\* ------------------------------------------------------------- GameState
\* GameState() with its field defaults
GameState ==
    [ round_number   |-> 0,
      user_score     |-> 0,
      bot_score      |-> 0,
      user_bomb_used |-> FALSE,
      bot_bomb_used  |-> FALSE,
      move_history   |-> << >> ]

\* add_round that records nothing for a round without a user move
add_round_skips_absent(s, user_move, bot_move, winner) ==
    IF user_move = None THEN s
    ELSE [s EXCEPT !.move_history =
            Append(@, [ round     |-> s.round_number,
                        user_move |-> user_move,
                        bot_move  |-> bot_move,
                        winner    |-> winner ])]

\* add_round that inserts at the front of the list (insert(0, ...))
add_round_prepends(s, user_move, bot_move, winner) ==
    [s EXCEPT !.move_history =
        << [ round     |-> s.round_number,
             user_move |-> user_move,
             bot_move  |-> bot_move,
             winner    |-> winner ] >> \o @]

\* GameState.add_round: append one record, stamped with the current round
add_round(s, user_move, bot_move, winner) ==
    [s EXCEPT !.move_history =
        Append(@, [ round     |-> s.round_number,
                    user_move |-> user_move,
                    bot_move  |-> bot_move,
                    winner    |-> winner ])]

\* ------------------------------------------------------------- GameLogic
\* generate_bot_move without the bot_bomb_used test
generate_bot_move_ignores_flag(s) ==
    IF s.round_number < 2
    THEN {"rock", "paper", "scissors"}
    ELSE {"bomb", "rock", "paper", "scissors"}

\* generate_bot_move: the set of moves the two random draws can produce
generate_bot_move(s) ==
    IF s.round_number < 2 \/ s.bot_bomb_used
    THEN StandardMoves
    ELSE {"bomb"} \cup StandardMoves

\* the wins dict with two values exchanged: rock beats paper, paper beats
\* scissors
wins_rock_paper_exchanged(m) ==
    CASE m = "rock"     -> "paper"
      [] m = "scissors" -> "paper"
      [] m = "paper"    -> "scissors"
      [] OTHER          -> None

\* the wins dict of determine_winner: key beats value
wins(m) ==
    CASE m = "rock"     -> "scissors"
      [] m = "scissors" -> "paper"
      [] m = "paper"    -> "rock"
      [] OTHER          -> None

\* determine_winner with the bomb rule ahead of the same-move rule
determine_winner_bomb_first(user_move, bot_move) ==
    IF user_move = None THEN "no_contest"
    ELSE IF user_move = "bomb" THEN "user"
    ELSE IF bot_move = "bomb" THEN "bot"
    ELSE IF user_move = bot_move THEN "draw"
    ELSE IF wins(user_move) = bot_move THEN "user"
    ELSE "bot"

\* determine_winner without the None test
determine_winner_no_none_test(user_move, bot_move) ==
    IF user_move = bot_move THEN "draw"
    ELSE IF user_move = "bomb" THEN "user"
    ELSE IF bot_move = "bomb" THEN "bot"
    ELSE IF wins(user_move) = bot_move THEN "user"
    ELSE "bot"

determine_winner(user_move, bot_move) ==
    IF user_move = None THEN "no_contest"
    ELSE IF user_move = bot_move THEN "draw"
    ELSE IF user_move = "bomb" THEN "user"
    ELSE IF bot_move = "bomb" THEN "bot"
    ELSE IF wins(user_move) = bot_move THEN "user"
    ELSE "bot"

\* what user_move.upper() raises when user_move is None; as the value of
\* get_explanation it stands for the exception leaving play_round
AttributeError == "AttributeError"

\* str.upper() on the move names
upper(m) ==
    CASE m = "rock"     -> "ROCK"
      [] m = "paper"    -> "PAPER"
      [] m = "scissors" -> "SCISSORS"
      [] m = "bomb"     -> "BOMB"

\* str.capitalize() on the winner names
capitalize(w) ==
    CASE w = "user"       -> "User"
      [] w = "bot"        -> "Bot"
      [] w = "draw"       -> "Draw"
      [] w = "no_contest" -> "No_contest"

\* the explanations dict without its ("paper", "scissors") entry
explanations_without_paper_scissors(user_move, bot_move, default) ==
    CASE user_move = "rock"     /\ bot_move = "scissors" -> "Rock crushes scissors. You win!"
      [] user_move = "scissors" /\ bot_move = "paper"    -> "Scissors cuts paper. You win!"
      [] user_move = "paper"    /\ bot_move = "rock"     -> "Paper covers rock. You win!"
      [] user_move = "scissors" /\ bot_move = "rock"     -> "Rock crushes scissors. Bot wins!"
      [] user_move = "rock"     /\ bot_move = "paper"    -> "Paper covers rock. Bot wins!"
      [] OTHER                                           -> default

\* the explanations dict of get_explanation, with its .get default
explanations(user_move, bot_move, default) ==
    CASE user_move = "rock"     /\ bot_move = "scissors" -> "Rock crushes scissors. You win!"
      [] user_move = "scissors" /\ bot_move = "paper"    -> "Scissors cuts paper. You win!"
      [] user_move = "paper"    /\ bot_move = "rock"     -> "Paper covers rock. You win!"
      [] user_move = "scissors" /\ bot_move = "rock"     -> "Rock crushes scissors. Bot wins!"
      [] user_move = "paper"    /\ bot_move = "scissors" -> "Scissors cuts paper. Bot wins!"
      [] user_move = "rock"     /\ bot_move = "paper"    -> "Paper covers rock. Bot wins!"
      [] OTHER                                           -> default

get_explanation(user_move, bot_move, winner, classification) ==
    IF classification = "INVALID"
    THEN "Your move was INVALID. Turn wasted. (Bot played " \o upper(bot_move) \o ")"
    ELSE IF classification = "UNCLEAR"
    THEN "Your move was UNCLEAR. Turn wasted. (Bot played " \o upper(bot_move) \o ")"
    ELSE IF winner = "no_contest"
    THEN "No valid move played. Turn wasted."
    ELSE IF winner = "draw"
    THEN IF user_move = None THEN AttributeError
         ELSE "Both played " \o upper(user_move) \o ". It's a draw!"
    ELSE IF user_move = "bomb"
    THEN "Your BOMB destroys " \o upper(bot_move) \o ". You win!"
    ELSE IF bot_move = "bomb"
    THEN IF user_move = None THEN AttributeError
         ELSE "Bot's BOMB destroys your " \o upper(user_move) \o ". Bot wins!"
    ELSE explanations(user_move, bot_move, capitalize(winner) \o " wins!")

\* play_round, "Increment round"
increment_round(s) ==
    [s EXCEPT !.round_number = @ + 1]

\* the user's flag set on any bomb, whatever the classification
update_user_bomb_any_classification(s, user_move, classification) ==
    IF user_move = "bomb"
    THEN [s EXCEPT !.user_bomb_used = TRUE]
    ELSE s

\* play_round, "Update bomb usage": the user's flag
update_user_bomb(s, user_move, classification) ==
    IF user_move = "bomb" /\ classification = "VALID"
    THEN [s EXCEPT !.user_bomb_used = TRUE]
    ELSE s

\* the bot's flag never set
update_bot_bomb_never(s, bot_move) ==
    s

\* the bot's flag assigned from the move of this round
update_bot_bomb_assigns(s, bot_move) ==
    [s EXCEPT !.bot_bomb_used = (bot_move = "bomb")]

\* play_round, "Update bomb usage": the bot's flag
update_bot_bomb(s, bot_move) ==
    IF bot_move = "bomb"
    THEN [s EXCEPT !.bot_bomb_used = TRUE]
    ELSE s

\* scores raised by 2 for the user's win
update_scores_user_by_two(s, winner) ==
    IF winner = "user" THEN [s EXCEPT !.user_score = @ + 2]
    ELSE IF winner = "bot" THEN [s EXCEPT !.bot_score = @ + 1]
    ELSE s

\* scores updated with a plain else: every round the user does not win
\* counts for the bot
update_scores_else_bot(s, winner) ==
    IF winner = "user" THEN [s EXCEPT !.user_score = @ + 1]
    ELSE [s EXCEPT !.bot_score = @ + 1]

\* play_round, "Update scores"
update_scores(s, winner) ==
    IF winner = "user" THEN [s EXCEPT !.user_score = @ + 1]
    ELSE IF winner = "bot" THEN [s EXCEPT !.bot_score = @ + 1]
    ELSE s

\* play_round, the state after the call, given the bot move that was drawn
\* from generate_bot_move(increment_round(s)); an exception in
\* get_explanation leaves before add_round
play_round_state(s, user_move, classification, bot_move) ==
    LET winner == determine_winner(user_move, bot_move)
        s1 == increment_round(s)
        s2 == update_user_bomb(s1, user_move, classification)
        s3 == update_bot_bomb(s2, bot_move)
        s4 == update_scores(s3, winner)
    IN  IF get_explanation(user_move, bot_move, winner, classification) = AttributeError
        THEN s4
        ELSE add_round(s4, user_move, bot_move, winner)

\* the RoundResult with the scores of before the round
RoundResult_scores_before_round(s, user_move, classification, bot_move) ==
    LET winner == determine_winner(user_move, bot_move)
    IN  [ round_number |-> s.round_number,
          user_move    |-> user_move,
          bot_move     |-> bot_move,
          winner       |-> winner,
          explanation  |-> get_explanation(user_move, bot_move, winner, classification),
          user_score   |-> IF winner = "user" THEN s.user_score - 1 ELSE s.user_score,
          bot_score    |-> IF winner = "bot" THEN s.bot_score - 1 ELSE s.bot_score ]

\* play_round, "Create result": the RoundResult built from the state after
\* the round (no result is returned when explanation is AttributeError)
RoundResult(s, user_move, classification, bot_move) ==
    LET winner == determine_winner(user_move, bot_move)
    IN  [ round_number |-> s.round_number,
          user_move    |-> user_move,
          bot_move     |-> bot_move,
          winner       |-> winner,
          explanation  |-> get_explanation(user_move, bot_move, winner, classification),
          user_score   |-> s.user_score,
          bot_score    |-> s.bot_score ]

\* get_final_result with >= in the first test: a tie goes to the user
get_final_result_tie_to_user(s) ==
    IF s.user_score >= s.bot_score THEN "user"
    ELSE IF s.bot_score > s.user_score THEN "bot"
    ELSE "draw"

get_final_result(s) ==
    IF s.user_score > s.bot_score THEN "user"
    ELSE IF s.bot_score > s.user_score THEN "bot"
    ELSE "draw"

\* --------------------------------------------------------------- actions
\* no request served yet
NoResponse ==
    [ op |-> NoCall, session_id |-> NoCall, llm |-> NoCall, status_code |-> 0,
      body |-> [detail |-> NoCall] ]

\* game_sessions = {}
NoSessions == [session_id \in {} |-> None]

\* the API module when no request is served
ApiIdle ==
    /\ game_sessions = NoSessions
    /\ intent_judge = None
    /\ response = NoResponse
    /\ inflight = << >>

\* no RockPaperScissorsPlusGame constructed: main.py is not the program run
NoGame == [max_rounds |-> 0, game_active |-> FALSE, final_winner |-> None]

\* GameLogic.__init__, before any round
Init ==
    /\ state = GameState
    /\ call = [user_move |-> None, classification |-> NoCall]
    /\ result = [ round_number |-> 0, user_move |-> None, bot_move |-> NoCall,
                  winner |-> NoCall, explanation |-> NoCall,
                  user_score |-> 0, bot_score |-> 0 ]
    /\ final_results = << >>
    /\ ApiIdle
    /\ game = NoGame

\* one GameLogic.play_round call, whole
PlayRound ==
    /\ state.round_number < MaxRounds
    /\ \E user_move \in InterpretedMoves, classification \in Classifications :
         \E bot_move \in generate_bot_move(increment_round(state)) :
            /\ state' = play_round_state(state, user_move, classification, bot_move)
            /\ call' = [user_move |-> user_move, classification |-> classification]
            /\ result' = RoundResult(state', user_move, classification, bot_move)
    /\ UNCHANGED <<final_results, api_vars, cli_vars>>

Next == PlayRound

Spec == Init /\ [][Next]_vars

\* ------------------------------------------------- get_final_result alone
\* the game after user_score rounds won by the user and bot_score rounds
\* won by the bot, played through play_round
RECURSIVE ScoreState(_, _)
ScoreState(user_score, bot_score) ==
    IF bot_score > 0
    THEN play_round_state(ScoreState(user_score, bot_score - 1), "rock", "VALID", "paper")
    ELSE IF user_score > 0
    THEN play_round_state(ScoreState(user_score - 1, 0), "rock", "VALID", "scissors")
    ELSE GameState

\* a game with any pair of scores up to MaxScore
InitFinal ==
    /\ \E user_score \in 0..MaxScore, bot_score \in 0..MaxScore :
          state = ScoreState(user_score, bot_score)
    /\ call = [user_move |-> None, classification |-> NoCall]
    /\ result = [ round_number |-> 0, user_move |-> None, bot_move |-> NoCall,
                  winner |-> NoCall, explanation |-> NoCall,
                  user_score |-> 0, bot_score |-> 0 ]
    /\ final_results = << >>
    /\ ApiIdle
    /\ game = NoGame

\* one GameLogic.get_final_result call: it reads the two scores and
\* assigns nothing
GetFinalResult ==
    /\ Len(final_results) < MaxFinalCalls
    /\ final_results' = Append(final_results, get_final_result(state))
    /\ UNCHANGED <<engine_vars, api_vars, cli_vars>>

NextFinal == GetFinalResult

SpecFinal == InitFinal /\ [][NextFinal]_vars

\* ------------------------------------------------------------------ API
\* IntentJudge(): the singleton api.py builds when GOOGLE_API_KEY is set
IntentJudge == "IntentJudge"

\* what the LLM chain does with one input: it raises, or it returns a
\* MoveInterpretation (the API is driven with these three)
LLMOutcomes ==
    { [raises |-> TRUE,  classification |-> None,      interpreted_move |-> None],
      [raises |-> FALSE, classification |-> "VALID",   interpreted_move |-> "rock"],
      [raises |-> FALSE, classification |-> "UNCLEAR", interpreted_move |-> None] }

\* judge_move without the except clause: the LLM error leaves judge_move
judge_move_propagates(outcome) ==
    [ raises           |-> outcome.raises,
      classification   |-> outcome.classification,
      interpreted_move |-> outcome.interpreted_move,
      reasoning        |-> IF outcome.raises THEN "Error calling LLM" ELSE "llm" ]

\* IntentJudge.judge_move: the chain's MoveInterpretation, or the fallback
\* of the except clause; raises tells whether an exception leaves judge_move
judge_move(outcome) ==
    IF outcome.raises
    THEN [ raises           |-> FALSE,
           classification   |-> "INVALID",
           interpreted_move |-> None,
           reasoning        |-> "Error processing input" ]
    ELSE [ raises           |-> FALSE,
           classification   |-> outcome.classification,
           interpreted_move |-> outcome.interpreted_move,
           reasoning        |-> "llm" ]

\* create_game_session whose GameLogic takes the state object of a session
\* already stored (state as a class attribute)
create_game_session_shared_state(sessions, session_id, max_rounds) ==
    [x \in DOMAIN sessions \cup {session_id} |->
        IF x = session_id
        THEN [state |-> IF DOMAIN sessions \ {session_id} = {}
                        THEN GameState
                        ELSE sessions[CHOOSE y \in DOMAIN sessions \ {session_id} : TRUE].state,
              max_rounds |-> max_rounds]
        ELSE sessions[x]]

\* create_game_session: a new GameLogic with max_rounds, stored under the id
create_game_session(sessions, session_id, max_rounds) ==
    [x \in DOMAIN sessions \cup {session_id} |->
        IF x = session_id
        THEN [state |-> GameState, max_rounds |-> max_rounds]
        ELSE sessions[x]]

\* delete_game_session that empties the dict
delete_game_session_clears(sessions, session_id) ==
    NoSessions

\* delete_game_session that leaves the dict alone
delete_game_session_keeps(sessions, session_id) ==
    sessions

\* delete_game_session
delete_game_session(sessions, session_id) ==
    [x \in DOMAIN sessions \ {session_id} |-> sessions[x]]

\* the game-over test with > for >=
game_over_test_strict(game_logic) ==
    game_logic.state.round_number > game_logic.max_rounds

\* play_move, "Check if game is (already) over" (hasattr is true of every
\* object create_game_session stores)
game_over_test(game_logic) ==
    game_logic.state.round_number >= game_logic.max_rounds

\* what the LLM chain did while the request was served
LLMCall(outcome) == IF outcome.raises THEN "raised" ELSE "returned"

\* raise HTTPException(status_code, detail): the dict is left as it is
HTTPException(sessions, op, session_id, llm, status_code, detail) ==
    [ sessions |-> sessions,
      response |-> [ op |-> op, session_id |-> session_id, llm |-> llm,
                     status_code |-> status_code,
                     body |-> [detail |-> detail] ] ]

\* start_game without the "already exists" test
start_game_overwrites(sessions, session_id, max_rounds) ==
    LET created == create_game_session(sessions, session_id, max_rounds)
    IN  [ sessions |-> created,
          response |-> [ op |-> "start", session_id |-> session_id, llm |-> NoCall,
                         status_code |-> 200,
                         body |-> [ round_number   |-> created[session_id].state.round_number,
                                    user_score     |-> created[session_id].state.user_score,
                                    bot_score      |-> created[session_id].state.bot_score,
                                    user_bomb_used |-> created[session_id].state.user_bomb_used,
                                    max_rounds     |-> max_rounds ] ] ]

\* POST /game/start
start_game(sessions, session_id, max_rounds) ==
    IF session_id \in DOMAIN sessions
    THEN HTTPException(sessions, "start", session_id, NoCall, 400, "already exists")
    ELSE LET created == create_game_session(sessions, session_id, max_rounds)
         IN  [ sessions |-> created,
               response |-> [ op |-> "start", session_id |-> session_id, llm |-> NoCall,
                              status_code |-> 200,
                              body |-> [ round_number   |-> created[session_id].state.round_number,
                                         user_score     |-> created[session_id].state.user_score,
                                         bot_score      |-> created[session_id].state.bot_score,
                                         user_bomb_used |-> created[session_id].state.user_bomb_used,
                                         max_rounds     |-> max_rounds ] ] ]

\* play_move from "Layer 1" on: the session exists and its game is not over
play_move_round(sessions, session_id, outcome, bot_move) ==
    LET game_logic == sessions[session_id]
        interpretation == judge_move(outcome)
        user_move == interpretation.interpreted_move
        classification == interpretation.classification
        played == [game_logic EXCEPT
                     !.state = play_round_state(@, user_move, classification, bot_move)]
        round_result == RoundResult(played.state, user_move, classification, bot_move)
        game_over == game_over_test(played)
    IN  IF interpretation.raises
        THEN HTTPException(sessions, "play", session_id, LLMCall(outcome), 500,
                           "Error in intent understanding")
        ELSE IF round_result.explanation = AttributeError
        THEN HTTPException([sessions EXCEPT ![session_id] = played],
                           "play", session_id, LLMCall(outcome), 500,
                           "Internal Server Error")
        ELSE [ sessions |-> [sessions EXCEPT ![session_id] = played],
               response |-> [ op |-> "play", session_id |-> session_id,
                              llm |-> LLMCall(outcome),
                              status_code |-> 200,
                              body |-> [ round_number   |-> round_result.round_number,
                                         interpretation |-> [ classification   |-> classification,
                                                              interpreted_move |-> user_move,
                                                              reasoning        |-> interpretation.reasoning ],
                                         result         |-> round_result,
                                         game_over      |-> game_over,
                                         final_winner   |-> IF game_over
                                                            THEN get_final_result(played.state)
                                                            ELSE None ] ] ]

\* POST /game/play
play_move(sessions, judge, session_id, outcome, bot_move) ==
    IF judge = None
    THEN HTTPException(sessions, "play", session_id, NoCall, 503, "AI Judge not configured")
    ELSE IF session_id \notin DOMAIN sessions
    THEN HTTPException(sessions, "play", session_id, NoCall, 404, "not found")
    ELSE IF game_over_test(sessions[session_id])
    THEN HTTPException(sessions, "play", session_id, NoCall, 400, "Game is already over")
    ELSE play_move_round(sessions, session_id, outcome, bot_move)

\* end_game without the "not in game_sessions" test: the lookup raises
\* KeyError for an unknown id
end_game_no_lookup_test(sessions, session_id) ==
    IF session_id \notin DOMAIN sessions
    THEN HTTPException(sessions, "end", session_id, NoCall, 500, "Internal Server Error")
    ELSE [ sessions |-> delete_game_session(sessions, session_id),
           response |-> [ op |-> "end", session_id |-> session_id, llm |-> NoCall,
                          status_code |-> 200,
                          body |-> [ final_winner |-> get_final_result(sessions[session_id].state),
                                     user |-> sessions[session_id].state.user_score,
                                     bot  |-> sessions[session_id].state.bot_score ] ] ]

\* DELETE /game/{session_id}
end_game(sessions, session_id) ==
    IF session_id \notin DOMAIN sessions
    THEN HTTPException(sessions, "end", session_id, NoCall, 404, "not found")
    ELSE [ sessions |-> delete_game_session(sessions, session_id),
           response |-> [ op |-> "end", session_id |-> session_id, llm |-> NoCall,
                          status_code |-> 200,
                          body |-> [ final_winner |-> get_final_result(sessions[session_id].state),
                                     user |-> sessions[session_id].state.user_score,
                                     bot  |-> sessions[session_id].state.bot_score ] ] ]

\* api.py loaded: no session; the judge exists iff the API key was set
InitApi ==
    /\ state = GameState
    /\ call = [user_move |-> None, classification |-> NoCall]
    /\ result = [ round_number |-> 0, user_move |-> None, bot_move |-> NoCall,
                  winner |-> NoCall, explanation |-> NoCall,
                  user_score |-> 0, bot_score |-> 0 ]
    /\ final_results = << >>
    /\ game_sessions = NoSessions
    /\ intent_judge \in {IntentJudge, None}
    /\ response = NoResponse
    /\ inflight = << >>
    /\ game = NoGame

\* one POST /game/start request
StartGame ==
    /\ \E session_id \in SessionIds, max_rounds \in MaxRoundsChoices :
          LET served == start_game(game_sessions, session_id, max_rounds)
          IN  /\ game_sessions' = served.sessions
              /\ response' = served.response
    /\ UNCHANGED <<engine_vars, final_results, intent_judge, inflight, cli_vars>>

\* the moves the bot can draw in a round of the session (None: no session,
\* no draw)
BotDraws(session_id) ==
    IF session_id \in DOMAIN game_sessions
    THEN generate_bot_move(increment_round(game_sessions[session_id].state))
    ELSE {None}

\* one POST /game/play request for the session
PlayMoveOn(session_id) ==
    /\ \E outcome \in LLMOutcomes :
          \E bot_move \in BotDraws(session_id) :
             LET served == play_move(game_sessions, intent_judge, session_id, outcome, bot_move)
             IN  /\ game_sessions' = served.sessions
                 /\ response' = served.response
    /\ UNCHANGED <<engine_vars, final_results, intent_judge, inflight, cli_vars>>

\* one POST /game/play request
PlayMove == \E session_id \in SessionIds : PlayMoveOn(session_id)

\* one DELETE /game/{session_id} request
EndGame ==
    /\ \E session_id \in SessionIds :
          LET served == end_game(game_sessions, session_id)
          IN  /\ game_sessions' = served.sessions
              /\ response' = served.response
    /\ UNCHANGED <<engine_vars, final_results, intent_judge, inflight, cli_vars>>

NextApi == StartGame \/ PlayMove \/ EndGame

SpecApi == InitApi /\ [][NextApi]_vars

\* ------------------------------------------- play requests in flight
\* the await expressions of play_move with an await on the judge
play_move_awaits_judge_move == {"judge_move"}

\* the await expressions in the body of the coroutine play_move: it has
\* none (judge_move, play_round and get_final_result are plain calls), so
\* the event loop runs the body from its first statement to its return
play_move_awaits == {}

\* the list without its i-th element
Remove(seq, i) == SubSeq(seq, 1, i - 1) \o SubSeq(seq, i + 1, Len(seq))

\* api.py loaded with the API key set, and session s1 started
InitConc ==
    /\ state = GameState
    /\ call = [user_move |-> None, classification |-> NoCall]
    /\ result = [ round_number |-> 0, user_move |-> None, bot_move |-> NoCall,
                  winner |-> NoCall, explanation |-> NoCall,
                  user_score |-> 0, bot_score |-> 0 ]
    /\ final_results = << >>
    /\ intent_judge = IntentJudge
    /\ \E max_rounds \in MaxRoundsChoices :
          LET served == start_game(NoSessions, "s1", max_rounds)
          IN  /\ game_sessions = served.sessions
              /\ response = served.response
    /\ inflight = << >>
    /\ game = NoGame

\* a POST /game/play request reaches the server: its coroutine is created
Arrive ==
    /\ Len(inflight) < MaxInflight
    /\ \E session_id \in SessionIds :
          inflight' = Append(inflight, [session_id |-> session_id, pc |-> "received"])
    /\ UNCHANGED <<engine_vars, final_results, game_sessions, intent_judge, response,
                   cli_vars>>

\* the event loop runs one of the coroutines, up to its next await or to
\* its end: the tests of play_move (503, 404, 400) and, after them, Layer 1
\* and Layer 2
Serve ==
    /\ \E i \in 1..Len(inflight), outcome \in LLMOutcomes :
          \E bot_move \in BotDraws(inflight[i].session_id) :
             LET request == inflight[i]
                 served == IF request.pc = "received"
                           THEN play_move(game_sessions, intent_judge,
                                          request.session_id, outcome, bot_move)
                           ELSE play_move_round(game_sessions, request.session_id,
                                                outcome, bot_move)
                 rejected == request.pc = "received" /\ served.response.llm = NoCall
             IN  IF request.pc = "received" /\ ~rejected /\ play_move_awaits # {}
                 THEN /\ inflight' = [inflight EXCEPT ![i].pc = "suspended"]
                      /\ UNCHANGED <<game_sessions, response>>
                 ELSE /\ game_sessions' = served.sessions
                      /\ response' = served.response
                      /\ inflight' = Remove(inflight, i)
    /\ UNCHANGED <<engine_vars, final_results, intent_judge, cli_vars>>

NextConc == Arrive \/ Serve

SpecConc == InitConc /\ [][NextConc]_vars

\* ------------------------------------------------ games played to the end
\* should_end_game with > for >=
should_end_game_strict(g, s) ==
    g.max_rounds > 0 /\ s.round_number > g.max_rounds

\* RockPaperScissorsPlusGame.should_end_game
should_end_game(g, s) ==
    g.max_rounds > 0 /\ s.round_number >= g.max_rounds

\* RockPaperScissorsPlusGame.__init__ (final_winner: the winner end_game
\* has printed)
RockPaperScissorsPlusGame(max_rounds) ==
    [max_rounds |-> max_rounds, game_active |-> TRUE, final_winner |-> None]

\* RockPaperScissorsPlusGame.end_game
RockPaperScissorsPlusGame_end_game(g, s) ==
    [g EXCEPT !.game_active = FALSE,
              !.final_winner = IF s.round_number > 0 THEN get_final_result(s) ELSE None]

\* one program is run: api.py, or main.py with a positive round limit
InitGames ==
    /\ state = GameState
    /\ call = [user_move |-> None, classification |-> NoCall]
    /\ result = [ round_number |-> 0, user_move |-> None, bot_move |-> NoCall,
                  winner |-> NoCall, explanation |-> NoCall,
                  user_score |-> 0, bot_score |-> 0 ]
    /\ final_results = << >>
    /\ game_sessions = NoSessions
    /\ response = NoResponse
    /\ inflight = << >>
    /\ \/ /\ intent_judge \in {IntentJudge, None}
          /\ game = NoGame
       \/ /\ intent_judge = None
          /\ \E max_rounds \in CliMaxRoundsChoices :
                game = RockPaperScissorsPlusGame(max_rounds)

\* one pass of the loop of play() with a move typed in: process_turn, then
\* should_end_game and end_game
Turn ==
    /\ game.game_active
    /\ \E outcome \in LLMOutcomes :
          \E bot_move \in generate_bot_move(increment_round(state)) :
             LET interpretation == judge_move(outcome)
                 user_move == interpretation.interpreted_move
                 classification == interpretation.classification
             IN  /\ state' = play_round_state(state, user_move, classification, bot_move)
                 /\ call' = [user_move |-> user_move, classification |-> classification]
                 /\ result' = RoundResult(state', user_move, classification, bot_move)
                 /\ game' = IF should_end_game(game, state')
                            THEN RockPaperScissorsPlusGame_end_game(game, state')
                            ELSE game
    /\ UNCHANGED <<final_results, api_vars>>

\* one pass of the loop with quit / exit / q typed in, or Ctrl-C: end_game
Quit ==
    /\ game.game_active
    /\ game' = RockPaperScissorsPlusGame_end_game(game, state)
    /\ UNCHANGED <<engine_vars, final_results, api_vars>>

\* the requests of api.py when api.py is the program run
ApiRequest == game = NoGame /\ NextApi

NextGames == ApiRequest \/ Turn \/ Quit

\* the player keeps submitting moves: the next move of the command-line
\* game is typed in, and the next play request of each session is sent
SpecGames ==
    /\ InitGames
    /\ [][NextGames]_vars
    /\ WF_vars(Turn)
    /\ \A session_id \in SessionIds : WF_vars(game = NoGame /\ PlayMoveOn(session_id))

\* ---------------------------------------------------------------- claims
\* the step is a play_round call (the only operation that counts a round)
RoundPlayed == state'.round_number = state.round_number + 1

\* the positions of the move_history records that satisfy a field test
RecordsWithWinner(h, w) == {i \in 1..Len(h) : h[i].winner = w}
RecordsWithUserMove(h, m) == {i \in 1..Len(h) : h[i].user_move = m}
RecordsWithBotMove(h, m) == {i \in 1..Len(h) : h[i].bot_move = m}

\* C1: every move_history record with a user move present has winner draw
\* exactly when user_move equals bot_move; bomb against bomb is a draw.
C1_DrawIffSameMove ==
    \A i \in 1..Len(state.move_history) :
        LET r == state.move_history[i] IN
        r.user_move # None =>
            /\ (r.winner = "draw") <=> (r.user_move = r.bot_move)
            /\ (r.user_move = "bomb" /\ r.bot_move = "bomb") => r.winner = "draw"

C1_Witness ==
    \E i \in 1..Len(state.move_history) :
        /\ state.move_history[i].user_move = "bomb"
        /\ state.move_history[i].bot_move = "bomb"
        /\ state.move_history[i].winner = "draw"

\* C2: a play_round call with user_move None returns winner no_contest and
\* leaves user_score and bot_score as they were, whatever the classification
\* and the bot's move.
C2_AbsentMoveNoContest ==
    [][(RoundPlayed /\ call'.user_move = None) =>
          /\ result'.winner = "no_contest"
          /\ state'.move_history[Len(state'.move_history)].winner = "no_contest"
          /\ state'.user_score = state.user_score
          /\ state'.bot_score = state.bot_score]_vars

C2_Witness ==
    /\ state.round_number > 0
    /\ call.user_move = None
    /\ call.classification = "VALID"
    /\ result.bot_move = "bomb"
    /\ result.winner = "no_contest"

\* C3: the bot's move in the first and in the second round of a game is
\* never bomb.
C3_NoBotBombInFirstTwoRounds ==
    \A i \in 1..Len(state.move_history) :
        state.move_history[i].round \in {1, 2} =>
            state.move_history[i].bot_move # "bomb"

\* C4: a round that starts with bot_bomb_used true never has the bot play
\* bomb, and at most one move_history record has bot_move bomb.
C4_BotBombAtMostOnce ==
    [][/\ (RoundPlayed /\ state.bot_bomb_used) => result'.bot_move # "bomb"
       /\ Cardinality(RecordsWithBotMove(state'.move_history, "bomb")) <= 1]_vars

C4_Witness ==
    /\ state.bot_bomb_used
    /\ \E i \in 1..Len(state.move_history) :
          /\ state.move_history[i].bot_move = "bomb"
          /\ i < Len(state.move_history)

\* C5: at most one move_history record of a game has user_move bomb.
C5_UserBombAtMostOnce ==
    Cardinality(RecordsWithUserMove(state.move_history, "bomb")) <= 1

\* C6: a round whose classification is INVALID or UNCLEAR has winner
\* no_contest and changes neither score, whatever move comes with it.
C6_InvalidOrUnclearWastesTurn ==
    [][(RoundPlayed /\ call'.classification \in {"INVALID", "UNCLEAR"}) =>
          /\ result'.winner = "no_contest"
          /\ state'.user_score = state.user_score
          /\ state'.bot_score = state.bot_score]_vars

\* C7: user_bomb_used turns from false to true in a play_round call only
\* when the call has user_move bomb and classification VALID; every other
\* call leaves user_bomb_used as it was.
C7_UserBombFlagOnlyOnValidBomb ==
    [][RoundPlayed =>
          /\ (~state.user_bomb_used /\ state'.user_bomb_used) =>
                (call'.user_move = "bomb" /\ call'.classification = "VALID")
          /\ ~(call'.user_move = "bomb" /\ call'.classification = "VALID") =>
                state'.user_bomb_used = state.user_bomb_used]_vars

C7_Witness ==
    /\ state.round_number > 0
    /\ call.user_move = "bomb"
    /\ call.classification \in {"INVALID", "UNCLEAR"}
    /\ ~state.user_bomb_used

\* C8: user_score + bot_score + (records with winner draw) + (records with
\* winner no_contest) equals round_number.
C8_ScoreConservation ==
    state.user_score + state.bot_score
      + Cardinality(RecordsWithWinner(state.move_history, "draw"))
      + Cardinality(RecordsWithWinner(state.move_history, "no_contest"))
    = state.round_number

C8_Witness ==
    /\ state.user_score + state.bot_score > 0
    /\ RecordsWithWinner(state.move_history, "draw") # {}
    /\ RecordsWithWinner(state.move_history, "no_contest") # {}

\* C9: the length of move_history equals round_number, in the fresh state
\* and after every play_round call.
C9_HistoryLengthIsRoundNumber ==
    Len(state.move_history) = state.round_number

C9_Witness ==
    /\ state.round_number = 2
    /\ Len(state.move_history) = 2
    /\ state.move_history[2].user_move = None

\* C10: each play_round call keeps every existing move_history record and
\* appends exactly one, and the i-th record has round = i.
C10_HistoryAppendOnly ==
    [][RoundPlayed =>
          /\ Len(state'.move_history) = Len(state.move_history) + 1
          /\ SubSeq(state'.move_history, 1, Len(state.move_history)) = state.move_history
          /\ \A i \in 1..Len(state'.move_history) : state'.move_history[i].round = i]_vars

C10_Witness ==
    /\ Len(state.move_history) >= 2
    /\ state.move_history[1].round = 1
    /\ state.move_history[2].round = 2

\* the winner the rules give for two distinct present moves
RuleWinner(user_move, bot_move) ==
    IF user_move = "bomb" THEN "user"
    ELSE IF bot_move = "bomb" THEN "bot"
    ELSE IF <<user_move, bot_move>> \in
              {<<"rock", "scissors">>, <<"scissors", "paper">>, <<"paper", "rock">>}
    THEN "user"
    ELSE "bot"

\* C11: for distinct present moves determine_winner gives user when the
\* user plays bomb, else bot when the bot plays bomb, else user exactly for
\* (rock, scissors), (scissors, paper), (paper, rock), and bot otherwise.
C11_WinnerOfDistinctMoves ==
    /\ \A um \in VALID_MOVES, bm \in VALID_MOVES :
          um # bm => determine_winner(um, bm) = RuleWinner(um, bm)
    /\ \A i \in 1..Len(state.move_history) :
          LET r == state.move_history[i] IN
          (r.user_move # None /\ r.user_move # r.bot_move) =>
              r.winner = RuleWinner(r.user_move, r.bot_move)

C11_Witness ==
    /\ \E i \in 1..Len(state.move_history) :
          /\ state.move_history[i].user_move = "paper"
          /\ state.move_history[i].bot_move = "bomb"
          /\ state.move_history[i].winner = "bot"
    /\ \E i \in 1..Len(state.move_history) :
          /\ state.move_history[i].user_move = "scissors"
          /\ state.move_history[i].bot_move = "paper"
          /\ state.move_history[i].winner = "user"

\* C18: play_round raises nothing for any move in {rock, paper, scissors,
\* bomb, None} and any classification, a second VALID bomb included: it
\* returns a result with winner in {user, bot, draw, no_contest} and keeps
\* user_bomb_used true once it is true.
C18_PlayRoundRaisesNothing ==
    [][RoundPlayed =>
          /\ result'.explanation # AttributeError
          /\ result'.winner \in {"user", "bot", "draw", "no_contest"}
          /\ result'.round_number = state'.round_number
          /\ state.user_bomb_used => state'.user_bomb_used]_vars

C18_Witness ==
    /\ state.user_bomb_used
    /\ Cardinality({i \in 1..Len(state.move_history) :
                      state.move_history[i].user_move = "bomb"}) >= 2
    /\ call.user_move = "bomb"
    /\ call.classification = "VALID"
    /\ result.winner \in {"user", "draw"}
    /\ result.explanation # AttributeError

\* C19: once user_bomb_used is true it stays true in every later state of
\* the game, and likewise bot_bomb_used.
C19_BombFlagsMonotone ==
    [][/\ state.user_bomb_used => state'.user_bomb_used
       /\ state.bot_bomb_used => state'.bot_bomb_used]_vars

C19_Witness ==
    /\ state.user_bomb_used
    /\ state.bot_bomb_used
    /\ state.round_number > 0
    /\ call.user_move # "bomb"
    /\ result.bot_move # "bomb"

\* C12: get_final_result returns user iff user_score > bot_score, bot iff
\* bot_score > user_score and draw iff the scores are equal; it changes no
\* field of the game state, and repeated calls with no round in between
\* return the same value.
C12_FinalResultPureFunctionOfScores ==
    [][/\ state' = state
       /\ \A i \in 1..Len(final_results') :
             /\ (final_results'[i] = "user") <=> (state.user_score > state.bot_score)
             /\ (final_results'[i] = "bot") <=> (state.bot_score > state.user_score)
             /\ (final_results'[i] = "draw") <=> (state.user_score = state.bot_score)
             /\ final_results'[i] = final_results'[1]]_vars

C12_Witness ==
    /\ Len(final_results) = 2
    /\ state.user_score = state.bot_score
    /\ state.user_score > 0
    /\ final_results = <<"draw", "draw">>

\* C13: a play request for a session whose round_number has reached
\* max_rounds is rejected with an error and leaves the session store as it
\* was; every session in the store has round_number <= max_rounds.
C13_NoRoundAfterGameOver ==
    [][/\ (/\ response'.op = "play"
           /\ response'.session_id \in DOMAIN game_sessions
           /\ game_sessions[response'.session_id].state.round_number
                 >= game_sessions[response'.session_id].max_rounds)
          => /\ response'.status_code = 400
             /\ game_sessions' = game_sessions
       /\ \A id \in DOMAIN game_sessions' :
             game_sessions'[id].state.round_number <= game_sessions'[id].max_rounds]_vars

C13_Witness ==
    /\ response.op = "play"
    /\ response.status_code = 400
    /\ response.session_id \in DOMAIN game_sessions
    /\ game_sessions[response.session_id].max_rounds = 2
    /\ game_sessions[response.session_id].state.round_number = 2

\* C14: when the classifier raises during a turn, the turn is played with
\* classification INVALID and no move: the round is no_contest, the scores
\* stay, and the session stays in the store, over only if the round limit
\* is reached.
C14_ClassifierFailureWastesTurn ==
    [][(response'.op = "play" /\ response'.llm = "raised") =>
          LET id == response'.session_id IN
          /\ response'.status_code = 200
          /\ response'.body.interpretation.classification = "INVALID"
          /\ response'.body.interpretation.interpreted_move = None
          /\ response'.body.result.winner = "no_contest"
          /\ id \in DOMAIN game_sessions'
          /\ game_sessions'[id].state.user_score = game_sessions[id].state.user_score
          /\ game_sessions'[id].state.bot_score = game_sessions[id].state.bot_score
          /\ game_sessions'[id].max_rounds = game_sessions[id].max_rounds
          /\ response'.body.game_over
                <=> (game_sessions'[id].state.round_number >= game_sessions'[id].max_rounds)]_vars

C14_Witness ==
    /\ response.op = "play"
    /\ response.llm = "raised"
    /\ response.status_code = 200
    /\ response.body.result.winner = "no_contest"
    /\ ~response.body.game_over
    /\ game_sessions[response.session_id].state.round_number
          < game_sessions[response.session_id].max_rounds

\* C15: when the classification step fails during a play request, the
\* request returns an error and the session's round_number, scores and
\* move_history are unchanged.
C15_ClassifierFailureIsAnError ==
    [][(response'.op = "play" /\ response'.llm = "raised") =>
          /\ response'.status_code >= 400
          /\ game_sessions' = game_sessions]_vars

\* C15, amended: when the classification step fails during a play request,
\* the request is answered 200 and a round is consumed: round_number and
\* move_history grow by one, the scores are unchanged.
C15_ClassifierFailureConsumesRound ==
    [][(response'.op = "play" /\ response'.llm = "raised") =>
          LET id == response'.session_id
              before == game_sessions[id].state
              after == game_sessions'[id].state
          IN  /\ response'.status_code = 200
              /\ after.round_number = before.round_number + 1
              /\ Len(after.move_history) = Len(before.move_history) + 1
              /\ after.user_score = before.user_score
              /\ after.bot_score = before.bot_score
              /\ response'.body.round_number = after.round_number]_vars

C15_Witness ==
    /\ response.op = "play"
    /\ response.llm = "raised"
    /\ response.status_code = 200
    /\ response.body.round_number = 2
    /\ Len(game_sessions[response.session_id].state.move_history) = 2
    /\ game_sessions[response.session_id].state.move_history[2].user_move = None

\* C16: a start request whose session_id is already in the store is
\* rejected with an error and the existing session is neither replaced nor
\* reset.
C16_StartOnExistingSessionRejected ==
    [][(response'.op = "start" /\ response'.session_id \in DOMAIN game_sessions) =>
          /\ response'.status_code = 400
          /\ game_sessions' = game_sessions]_vars

C16_Witness ==
    /\ response.op = "start"
    /\ response.status_code = 400
    /\ response.session_id \in DOMAIN game_sessions
    /\ game_sessions[response.session_id].state.round_number > 0
    /\ game_sessions[response.session_id].state.bot_bomb_used

\* C17: a play or end request for a session_id that is not in the store is
\* answered with a not-found error, creates no session and leaves every
\* existing session unchanged.
C17_UnknownSessionNotFound ==
    [][(response'.op \in {"play", "end"} /\ response'.session_id \notin DOMAIN game_sessions) =>
          /\ response'.status_code = 404
          /\ game_sessions' = game_sessions]_vars

\* C17, amended: such a request creates no session and leaves every
\* existing session unchanged; an end request is answered 404, and a play
\* request is answered 404 when the judge is configured and 503 when it is
\* not.
C17_UnknownSessionRejected ==
    [][(response'.op \in {"play", "end"} /\ response'.session_id \notin DOMAIN game_sessions) =>
          /\ response'.status_code =
                IF response'.op = "play" /\ intent_judge = None THEN 503 ELSE 404
          /\ game_sessions' = game_sessions]_vars

C17_Witness ==
    /\ response.op = "play"
    /\ response.status_code = 404
    /\ response.session_id \notin DOMAIN game_sessions
    /\ \E id \in DOMAIN game_sessions : game_sessions[id].state.round_number > 0

\* C20: a session whose round_number has reached max_rounds is no longer in
\* the session store.
C20_SessionDiscardedAtRoundLimit ==
    \A id \in DOMAIN game_sessions :
        game_sessions[id].state.round_number < game_sessions[id].max_rounds

\* C20, amended: a session is discarded on explicit end only: after the
\* play request that brings round_number to max_rounds the session is still
\* in the store, and after an accepted end request it is not.
C20_SessionDiscardedOnEndOnly ==
    [][/\ (response'.op = "play" /\ response'.status_code = 200 /\ response'.body.game_over)
             => /\ response'.session_id \in DOMAIN game_sessions'
                /\ game_sessions'[response'.session_id].state.round_number
                      = game_sessions'[response'.session_id].max_rounds
       /\ (response'.op = "end" /\ response'.status_code = 200)
             => response'.session_id \notin DOMAIN game_sessions']_vars

C20_Witness ==
    /\ response.op = "play"
    /\ response.status_code = 200
    /\ response.body.game_over
    /\ response.session_id \in DOMAIN game_sessions
    /\ game_sessions[response.session_id].state.round_number
          = game_sessions[response.session_id].max_rounds

\* C23: user_score is the number of move_history records with winner user
\* and bot_score the number with winner bot; a play_round call raises at
\* most one of the two scores, by exactly 1, and lowers neither.
C23_ScoresTrackWinners ==
    [][/\ state'.user_score = Cardinality(RecordsWithWinner(state'.move_history, "user"))
       /\ state'.bot_score = Cardinality(RecordsWithWinner(state'.move_history, "bot"))
       /\ RoundPlayed =>
             \/ /\ state'.user_score = state.user_score
                /\ state'.bot_score = state.bot_score
             \/ /\ state'.user_score = state.user_score + 1
                /\ state'.bot_score = state.bot_score
             \/ /\ state'.user_score = state.user_score
                /\ state'.bot_score = state.bot_score + 1]_vars

C23_Witness ==
    /\ state.user_score = 1
    /\ state.bot_score = 1
    /\ state.round_number = 3
    /\ result.winner = "user"

\* C24: the RoundResult play_round returns has the round_number, user_score
\* and bot_score of the state after the call, and the user_move, bot_move
\* and winner of the last move_history record.
C24_ResultIsSnapshot ==
    state.round_number > 0 =>
        LET last == state.move_history[Len(state.move_history)] IN
        /\ result.round_number = state.round_number
        /\ result.user_score = state.user_score
        /\ result.bot_score = state.bot_score
        /\ result.user_move = last.user_move
        /\ result.bot_move = last.bot_move
        /\ result.winner = last.winner

C24_Witness ==
    /\ state.round_number = 3
    /\ result.round_number = 3
    /\ result.user_score = 2
    /\ result.bot_score = 1
    /\ result.winner = "bot"

\* the generic default of the explanations lookup
GenericExplanations == {"User wins!", "Bot wins!", "Draw wins!", "No_contest wins!"}

\* C25: for every user_move in {rock, paper, scissors, bomb, None}, bot_move
\* in {rock, paper, scissors, bomb} and classification, with the winner
\* determine_winner gives, get_explanation never returns the generic
\* "<Winner> wins!" text.
C25_ExplanationNeverGeneric ==
    /\ \A um \in InterpretedMoves, bm \in VALID_MOVES, c \in Classifications :
          get_explanation(um, bm, determine_winner(um, bm), c) \notin GenericExplanations
    /\ result.explanation \notin GenericExplanations

C25_Witness ==
    /\ call.classification = "VALID"
    /\ result.user_move = "paper"
    /\ result.bot_move = "scissors"
    /\ result.explanation = "Scissors cuts paper. Bot wins!"

\* C29: a round in which the bot plays bomb while the user move is None or
\* bomb sets bot_bomb_used and leaves bot_score as it was, and the bot plays
\* no bomb in any later round of the game.
C29_BotBombSpentWithoutWin ==
    [][RoundPlayed =>
          /\ (result'.bot_move = "bomb" /\ call'.user_move \in {None, "bomb"}) =>
                /\ state'.bot_bomb_used
                /\ state'.bot_score = state.bot_score
          /\ (\E i \in 1..Len(state.move_history) :
                  /\ state.move_history[i].bot_move = "bomb"
                  /\ state.move_history[i].user_move \in {None, "bomb"}) =>
                result'.bot_move # "bomb"]_vars

C29_Witness ==
    /\ state.bot_bomb_used
    /\ state.bot_score = 0
    /\ state.round_number = 3
    /\ state.move_history[2].bot_move = "bomb"
    /\ state.move_history[2].user_move = None
    /\ state.move_history[2].winner = "no_contest"

\* C21: a start, play or end request on one session leaves every other
\* session as it was: still present or still absent in game_sessions, with
\* the same round_number, scores, bomb flags, move_history and max_rounds.
C21_OtherSessionsUntouched ==
    [][\A other \in SessionIds \ {response'.session_id} :
          /\ (other \in DOMAIN game_sessions') <=> (other \in DOMAIN game_sessions)
          /\ other \in DOMAIN game_sessions =>
                /\ game_sessions'[other].state = game_sessions[other].state
                /\ game_sessions'[other].max_rounds = game_sessions[other].max_rounds]_vars

C21_Witness ==
    /\ response.op = "end"
    /\ response.status_code = 200
    /\ response.session_id = "s1"
    /\ "s2" \in DOMAIN game_sessions
    /\ game_sessions["s2"].state.round_number = 1
    /\ game_sessions["s2"].max_rounds = 2

\* the winner the final scores give
WinnerOfScores(user_score, bot_score) ==
    IF user_score > bot_score THEN "user"
    ELSE IF bot_score > user_score THEN "bot"
    ELSE "draw"

\* C26: a play response has game_over true exactly when the session's
\* round_number after the round is at least max_rounds; final_winner is
\* non-null exactly when game_over is true, and is then the result of
\* get_final_result on the scores after the round.
C26_GameOverAndFinalWinner ==
    (response.op = "play" /\ response.status_code = 200) =>
        LET game_logic == game_sessions[response.session_id]
            body == response.body
        IN  /\ body.round_number = game_logic.state.round_number
            /\ body.game_over <=> (game_logic.state.round_number >= game_logic.max_rounds)
            /\ (body.final_winner # None) <=> body.game_over
            /\ body.game_over =>
                  body.final_winner = WinnerOfScores(game_logic.state.user_score,
                                                     game_logic.state.bot_score)

C26_Witness ==
    /\ response.op = "play"
    /\ response.status_code = 200
    /\ response.body.game_over
    /\ response.body.round_number = 2
    /\ response.body.final_winner = "bot"

\* C27: the session a start request creates has round_number 0, both scores
\* 0, both bomb flags false and an empty move_history, whatever was played
\* before under the same id or under another one.
C27_StartedSessionIsFresh ==
    [][(response'.op = "start" /\ response'.status_code = 200) =>
          LET s == game_sessions'[response'.session_id].state
          IN  /\ response'.session_id \notin DOMAIN game_sessions
              /\ s.round_number = 0
              /\ s.user_score = 0
              /\ s.bot_score = 0
              /\ ~s.user_bomb_used
              /\ ~s.bot_bomb_used
              /\ s.move_history = << >>]_vars

C27_Witness ==
    /\ response.op = "start"
    /\ response.status_code = 200
    /\ response.session_id = "s1"
    /\ game_sessions["s1"].state = GameState
    /\ "s2" \in DOMAIN game_sessions
    /\ game_sessions["s2"].state.round_number = 2

\* C22: play requests in flight together for one session are resolved one
\* at a time: no request is suspended between its game-over test and its
\* play_round, every answer is the one play_move gives when run alone on
\* the store as it is then, every accepted request adds exactly one round,
\* and round_number never exceeds max_rounds.
C22_PlayRequestsSerialized ==
    [][/\ \A i \in 1..Len(inflight') : inflight'[i].pc = "received"
       /\ \A id \in DOMAIN game_sessions' :
             game_sessions'[id].state.round_number <= game_sessions'[id].max_rounds
       /\ Len(inflight') < Len(inflight) =>
             /\ \E i \in 1..Len(inflight), outcome \in LLMOutcomes :
                   \E bot_move \in BotDraws(inflight[i].session_id) :
                      LET alone == play_move(game_sessions, intent_judge,
                                             inflight[i].session_id, outcome, bot_move)
                      IN  /\ inflight' = Remove(inflight, i)
                          /\ game_sessions' = alone.sessions
                          /\ response' = alone.response
             /\ response'.status_code = 200 =>
                   game_sessions'[response'.session_id].state.round_number
                      = game_sessions[response'.session_id].state.round_number + 1]_vars

C22_Witness ==
    /\ Len(inflight) = 1
    /\ inflight[1].session_id = "s1"
    /\ response.op = "play"
    /\ response.session_id = "s1"
    /\ response.status_code = 200
    /\ response.body.game_over
    /\ game_sessions["s1"].max_rounds = 2
    /\ game_sessions["s1"].state.round_number = 2

\* the game of the session is over, or the session is gone
GameOverReached(session_id) ==
    \/ session_id \notin DOMAIN game_sessions
    \/ game_over_test(game_sessions[session_id])

\* every accepted play request and every processed turn adds exactly one
\* round, and the game is over exactly when max_rounds rounds are played
TurnsCountRounds ==
    /\ (response' # response /\ response'.op = "play" /\ response'.status_code = 200) =>
          LET before == game_sessions[response'.session_id]
              after == game_sessions'[response'.session_id]
          IN  /\ after.state.round_number = before.state.round_number + 1
              /\ after.state.round_number <= after.max_rounds
              /\ response'.body.game_over <=> (after.state.round_number = after.max_rounds)
    /\ state' # state =>
          /\ state'.round_number = state.round_number + 1
          /\ state'.round_number <= game.max_rounds
          /\ game'.game_active <=> (state'.round_number < game.max_rounds)

\* the command-line game ends
CliGameEnds == game.game_active ~> ~game.game_active

\* C28 as stated: every accepted play request (API) or processed turn
\* (command line) adds exactly one round, the game is over after exactly
\* max_rounds of them, and a player who keeps submitting moves reaches
\* game over.
C28_GameTerminates ==
    /\ [][TurnsCountRounds]_vars
    /\ CliGameEnds
    /\ \A session_id \in SessionIds :
          (session_id \in DOMAIN game_sessions) ~> GameOverReached(session_id)

\* C28, amended: the same, with game over reached through the API when the
\* judge is configured; without it every play request is answered 503 and
\* the session stays at the round it is in.
C28_GameTerminatesWithJudge ==
    /\ [][TurnsCountRounds]_vars
    /\ CliGameEnds
    /\ \A session_id \in SessionIds :
          (intent_judge # None /\ session_id \in DOMAIN game_sessions)
             ~> GameOverReached(session_id)

C28_Witness ==
    /\ intent_judge = IntentJudge
    /\ response.op = "play"
    /\ response.status_code = 200
    /\ response.body.game_over
    /\ response.body.round_number = 2
    /\ response.body.result.winner = "no_contest"
    /\ game_sessions[response.session_id].state.move_history[1].winner = "no_contest"

====
